---- MODULE Spec2Model ----
(***************************************************************************)
(* Model of the relational engine of src/main.py (AstroInsight Ephemeris   *)
(* API): calc_aspects, detect_patterns, calc_planet_in_house,              *)
(* calc_composite, calc_arabic_parts, calc_distribution, the dominant      *)
(* planet of natal_chart, and the angle helpers they use.                  *)
(*                                                                         *)
(* Longitudes are Python floats (degrees).  The model keeps them as        *)
(* integers counted in a fixed fraction of a degree: one degree is         *)
(* TenK * SubTenK units, so that round(x, 4) (to a ten-thousandth of a     *)
(* degree) and round(x, 2) are real roundings and not the identity.        *)
(*                                                                         *)
(* A Python dict is insertion ordered: a longitude map is a sequence of    *)
(* [name, long] records with pairwise distinct names.                      *)
(* An f-string f"{label}{name}" is the pair <<label, name>>.               *)
(***************************************************************************)
EXTENDS Integers, Sequences, FiniteSets, TLC

VARIABLES
    pc,          \* position of the caller: "build" while it fills the inputs, "done" after the call
    planets_a,   \* calc_aspects: first collection
    planets_b,   \* calc_aspects: second collection
    label_a,     \* calc_aspects: prefix of the first collection
    label_b,     \* calc_aspects: prefix of the second collection
    aspects,     \* calc_aspects: returned list
    longs_map,   \* detect_patterns: the longitude map
    patterns,    \* detect_patterns: returned list
    planet_long, \* calc_planet_in_house: the longitude
    houses,      \* calc_planet_in_house: the cusps
    casa,        \* calc_planet_in_house: returned label (or the raised error)
    planets1,    \* calc_composite: planets of the first person
    planets2,    \* calc_composite: planets of the second person
    asc1,        \* calc_composite: ascendant of the first person
    asc2,        \* calc_composite: ascendant of the second person
    composite,   \* calc_composite: returned chart
    arabic_args, \* calc_arabic_parts: the reference longitudes
    arabic,      \* calc_arabic_parts: returned parts
    planets_data,    \* natal_chart: sign of each planet, in the order of the loop
    asc_sign,        \* natal_chart: sign of the ascendant
    distribution,    \* natal_chart: result of calc_distribution
    dominant_planet  \* natal_chart: pianeta_dominante

compositeVars == <<planets1, planets2, asc1, asc2, composite>>

arabicVars == <<arabic_args, arabic>>

natalVars == <<planets_data, asc_sign, distribution, dominant_planet>>

vars == <<pc, planets_a, planets_b, label_a, label_b, aspects,
          longs_map, patterns, planet_long, houses, casa,
          compositeVars, arabicVars, natalVars>>

-----------------------------------------------------------------------------
(* Units *)

\* round(x, 2) keeps hundredths of a degree.
Centi == 100

\* round(x, 4) keeps ten-thousandths of a degree.
TenK == 10000

\* Resolution of the model: a ten-thousandth of a degree is 2 * FineSteps
\* units, an even number, so that the half of a sum of two longitudes that
\* have 4 decimals is a whole number of units.
FineSteps == 2

SubTenK == 2 * FineSteps

Unit == TenK * SubTenK

\* Units in a hundredth of a degree.
SubCenti == Unit \div Centi

Deg(d) == d * Unit

Abs(x) == IF x < 0 THEN -x ELSE x

Min(x, y) == IF x <= y THEN x ELSE y

\* The digits after the second decimal dropped.
Round2_Floor(x) == (x \div SubCenti) * SubCenti

\* Python round(x, 2) for x >= 0: nearest hundredth, a tie going to the even one.
Round2(x) ==
    LET q == x \div SubCenti
        r == x % SubCenti
    IN  IF 2 * r < SubCenti THEN q * SubCenti
        ELSE IF 2 * r > SubCenti THEN (q + 1) * SubCenti
        ELSE IF q % 2 = 0 THEN q * SubCenti ELSE (q + 1) * SubCenti

\* The digits after the fourth decimal dropped.
Round4_Floor(x) == (x \div SubTenK) * SubTenK

\* Python round(x, 4) for x >= 0: nearest ten-thousandth, a tie going to the
\* even one.
Round4(x) ==
    LET q == x \div SubTenK
        r == x % SubTenK
    IN  IF 2 * r < SubTenK THEN q * SubTenK
        ELSE IF 2 * r > SubTenK THEN (q + 1) * SubTenK
        ELSE IF q % 2 = 0 THEN q * SubTenK ELSE (q + 1) * SubTenK

\* The records appended by the passes of a for loop, one sequence per pass,
\* in the order of the passes.
Flatten(ss) ==
    LET passes == ss \o <<>>
        acc[m \in 0..Len(passes)] == IF m = 0 THEN <<>> ELSE acc[m - 1] \o passes[m]
    IN  acc[Len(passes)]

-----------------------------------------------------------------------------
(* Constant tables *)

PLANETS == <<"sole", "luna", "mercurio", "venere", "marte", "giove",
             "saturno", "urano", "nettuno", "plutone", "chirone">>

SIGNS == <<"Ariete", "Toro", "Gemelli", "Cancro", "Leone", "Vergine",
           "Bilancia", "Scorpione", "Sagittario", "Capricorno", "Acquario", "Pesci">>

HOUSES_LABELS == <<"I", "II", "III", "IV", "V", "VI", "VII", "VIII", "IX", "X", "XI", "XII">>

ELEMENT ==
    [s \in {SIGNS[i] : i \in 1..12} |->
        CASE s \in {"Ariete", "Leone", "Sagittario"} -> "Fuoco"
          [] s \in {"Toro", "Vergine", "Capricorno"} -> "Terra"
          [] s \in {"Gemelli", "Bilancia", "Acquario"} -> "Aria"
          [] OTHER -> "Acqua"]

QUALITY ==
    [s \in {SIGNS[i] : i \in 1..12} |->
        CASE s \in {"Ariete", "Cancro", "Bilancia", "Capricorno"} -> "Cardinale"
          [] s \in {"Toro", "Leone", "Scorpione", "Acquario"} -> "Fisso"
          [] OTHER -> "Mutabile"]

POLARITY ==
    [e \in {"Fuoco", "Terra", "Aria", "Acqua"} |->
        IF e \in {"Fuoco", "Aria"} THEN "Maschile" ELSE "Femminile"]

\* deg_to_sign: (sign, degrees in the sign rounded to 2 decimals)
deg_to_sign(deg) ==
    LET d == deg % Deg(360)
        sign_idx == d \div Deg(30)
    IN  <<SIGNS[sign_idx + 1], Round2(d % Deg(30))>>

-----------------------------------------------------------------------------
(* calc_aspects *)

orb_major == 8

orb_minor == 6

\* The table with a square whose tolerance reaches into the sextile and the
\* trine.
aspect_types_Overlap == <<
    [angle |-> Deg(0),   asp_name |-> "congiunzione",   orb |-> Deg(orb_major), tipo |-> "neutro"],
    [angle |-> Deg(30),  asp_name |-> "semisestile",    orb |-> Deg(2),         tipo |-> "minore"],
    [angle |-> Deg(45),  asp_name |-> "semiquadrato",   orb |-> Deg(2),         tipo |-> "minore"],
    [angle |-> Deg(60),  asp_name |-> "sestile",        orb |-> Deg(orb_minor), tipo |-> "armonico"],
    [angle |-> Deg(72),  asp_name |-> "quintile",       orb |-> Deg(2),         tipo |-> "minore"],
    [angle |-> Deg(90),  asp_name |-> "quadratura",     orb |-> Deg(30),        tipo |-> "tensione"],
    [angle |-> Deg(120), asp_name |-> "trigono",        orb |-> Deg(orb_major), tipo |-> "armonico"],
    [angle |-> Deg(135), asp_name |-> "sesquiquadrato", orb |-> Deg(2),         tipo |-> "minore"],
    [angle |-> Deg(150), asp_name |-> "quinconce",      orb |-> Deg(3),         tipo |-> "neutro"],
    [angle |-> Deg(180), asp_name |-> "opposizione",    orb |-> Deg(orb_major), tipo |-> "tensione"] >>

aspect_types == <<
    [angle |-> Deg(0),   asp_name |-> "congiunzione",   orb |-> Deg(orb_major), tipo |-> "neutro"],
    [angle |-> Deg(30),  asp_name |-> "semisestile",    orb |-> Deg(2),         tipo |-> "minore"],
    [angle |-> Deg(45),  asp_name |-> "semiquadrato",   orb |-> Deg(2),         tipo |-> "minore"],
    [angle |-> Deg(60),  asp_name |-> "sestile",        orb |-> Deg(orb_minor), tipo |-> "armonico"],
    [angle |-> Deg(72),  asp_name |-> "quintile",       orb |-> Deg(2),         tipo |-> "minore"],
    [angle |-> Deg(90),  asp_name |-> "quadratura",     orb |-> Deg(orb_major), tipo |-> "tensione"],
    [angle |-> Deg(120), asp_name |-> "trigono",        orb |-> Deg(orb_major), tipo |-> "armonico"],
    [angle |-> Deg(135), asp_name |-> "sesquiquadrato", orb |-> Deg(2),         tipo |-> "minore"],
    [angle |-> Deg(150), asp_name |-> "quinconce",      orb |-> Deg(3),         tipo |-> "neutro"],
    [angle |-> Deg(180), asp_name |-> "opposizione",    orb |-> Deg(orb_major), tipo |-> "tensione"] >>

\* diff = abs(a_long - b_long) % 360; if diff > 180: diff = 360 - diff
AspectDiff(a_long, b_long) ==
    LET diff == Abs(a_long - b_long) % Deg(360)
    IN  IF diff > Deg(180) THEN Deg(360) - diff ELSE diff

\* The inner loop over the aspect table for one pair.
PairAspects(a, b, la, lb) ==
    LET diff == AspectDiff(a.long, b.long)
        One(t) ==
            IF Abs(diff - t.angle) <= t.orb
            THEN << [pianeta_a     |-> <<la, a.name>>,
                     pianeta_b     |-> <<lb, b.name>>,
                     aspetto       |-> t.asp_name,
                     tipo          |-> t.tipo,
                     angolo_esatto |-> t.angle,
                     orb           |-> Round2(Abs(diff - t.angle)),
                     applicante    |-> diff < t.angle] >>
            ELSE <<>>
    IN  Flatten([t \in 1..Len(aspect_types) |-> One(aspect_types[t])])

\* The pair is skipped as already seen (line 123): a variant that never skips.
SeenSkip_Never(key, seen, la, lb) == FALSE

\* if key in seen and label_a == label_b: continue
SeenSkip(key, seen, la, lb) == key \in seen /\ la = lb

\* The two nested loops, pair number p of Len(A) * Len(B) in row-major order;
\* the result is [aspects, seen].
ScanPairs(A, B, la, lb) ==
    LET nb == Len(B)
        step[p \in 0..(Len(A) * nb)] ==
            IF p = 0 THEN [aspects |-> <<>>, seen |-> {}]
            ELSE LET prev == step[p - 1]
                     a    == A[((p - 1) \div nb) + 1]
                     b    == B[((p - 1) % nb) + 1]
                     key  == {a.name, b.name}
                 IN  IF a.name = b.name THEN prev
                     ELSE IF SeenSkip(key, prev.seen, la, lb) THEN prev
                     ELSE [aspects |-> prev.aspects \o PairAspects(a, b, la, lb),
                           seen    |-> prev.seen \cup {key}]
    IN  step[Len(A) * nb]

\* aspects.sort(key = orb) left out.
SortByOrb_None(s) == s

\* aspects.sort(key=lambda x: x["orb"]): a stable sort (insertion of each record
\* after the last one whose orb is not greater).
SortByOrb(s) ==
    LET Insert(sorted, r) ==
            LET k == Cardinality({i \in 1..Len(sorted) : sorted[i].orb <= r.orb})
            IN  SubSeq(sorted, 1, k) \o <<r>> \o SubSeq(sorted, k + 1, Len(sorted))
        acc[m \in 0..Len(s)] == IF m = 0 THEN <<>> ELSE Insert(acc[m - 1], s[m])
    IN  acc[Len(s)]

calc_aspects(A, B, la, lb) == SortByOrb(ScanPairs(A, B, la, lb).aspects)


-----------------------------------------------------------------------------
(* Inputs of calc_aspects and its caller *)

\* Number of points of a chart scanned against itself.
MaxNatalBodies == 3

\* Number of points of each of the two charts of an inter-chart scan.
MaxTransitBodies == 2

\* Longitudes the charts draw from: exact aspects, the edge of an orb, and
\* fractions of a hundredth of a degree that round down and up.
AspectGrid == {0, 1, Deg(8) + 1, Deg(60) + SubCenti - 1, Deg(118), Deg(180)}

Point(chart, long) == [name |-> PLANETS[Len(chart) + 1], long |-> long]

NoAspectCall ==
    /\ planets_a = <<>> /\ planets_b = <<>> /\ label_a = "" /\ label_b = ""
    /\ aspects = <<>>

NoPatternCall == longs_map = <<>> /\ patterns = <<>>

NoHouseCall == planet_long = 0 /\ houses = <<>> /\ casa = ""

NoCompositeCall ==
    /\ planets1 = <<>> /\ planets2 = <<>> /\ asc1 = 0 /\ asc2 = 0
    /\ composite = <<>>

NoArabicCall == arabic_args = <<>> /\ arabic = <<>>

NoNatalCall ==
    /\ planets_data = <<>> /\ asc_sign = "" /\ distribution = <<>>
    /\ dominant_planet = ""

NoLaterCall == NoCompositeCall /\ NoArabicCall /\ NoNatalCall

\* The caller is natal_chart (one map, no labels) or current_transits (two
\* maps, "T:" and "N:"); the maps are empty before the loop over PLANETS.
InitAspects ==
    /\ pc = "build"
    /\ planets_a = <<>> /\ planets_b = <<>>
    /\ \/ label_a = "" /\ label_b = ""
       \/ label_a = "T:" /\ label_b = "N:"
    /\ aspects = <<>>
    /\ NoPatternCall /\ NoHouseCall /\ NoLaterCall

\* natal_chart: long_map[name] = longitude, the one map passed twice
AddNatalPoint ==
    /\ pc = "build" /\ label_a = ""
    /\ Len(planets_a) < MaxNatalBodies
    /\ \E long \in AspectGrid :
          /\ planets_a' = Append(planets_a, Point(planets_a, long))
          /\ planets_b' = Append(planets_b, Point(planets_b, long))
    /\ UNCHANGED <<pc, label_a, label_b, aspects,
                   longs_map, patterns, planet_long, houses, casa>>
    /\ UNCHANGED <<compositeVars, arabicVars, natalVars>>

\* current_transits: natal_planets[name] and transit_planets[name] of one
\* pass of the loop over PLANETS
AddTransitPoint ==
    /\ pc = "build" /\ label_a = "T:"
    /\ Len(planets_a) < MaxTransitBodies
    /\ \E tlong \in AspectGrid, nlong \in AspectGrid :
          /\ planets_a' = Append(planets_a, Point(planets_a, tlong))
          /\ planets_b' = Append(planets_b, Point(planets_b, nlong))
    /\ UNCHANGED <<pc, label_a, label_b, aspects,
                   longs_map, patterns, planet_long, houses, casa>>
    /\ UNCHANGED <<compositeVars, arabicVars, natalVars>>

CallAspects ==
    /\ pc = "build"
    /\ aspects' = calc_aspects(planets_a, planets_b, label_a, label_b)
    /\ pc' = "done"
    /\ UNCHANGED <<planets_a, planets_b, label_a, label_b,
                   longs_map, patterns, planet_long, houses, casa>>
    /\ UNCHANGED <<compositeVars, arabicVars, natalVars>>

NextAspects == AddNatalPoint \/ AddTransitPoint \/ CallAspects

SpecAspects == InitAspects /\ [][NextAspects]_vars

-----------------------------------------------------------------------------
(* Properties of calc_aspects *)

\* The minimal angular distance of two longitudes, in [0, 180] degrees.
MinArc(x, y) ==
    LET d == (x - y) % Deg(360)
    IN  IF d <= Deg(360) - d THEN d ELSE Deg(360) - d

LongOf(chart, name) == chart[CHOOSE i \in 1..Len(chart) : chart[i].name = name].long

TableEntry(angle) ==
    aspect_types[CHOOSE t \in 1..Len(aspect_types) : aspect_types[t].angle = angle]

WithinOrb(x, y, t) == Abs(MinArc(x, y) - t.angle) <= t.orb

IntraChart == label_a = label_b /\ planets_b = planets_a

InterChart == label_a # label_b

\* C1: in an inter-chart scan (two collections with distinct labels) the output
\* holds a record for every pair (a in A, b in B) and every table entry whose orb
\* contains their separation, a pair of the same body name in A and B included.
C1_InterChartEveryPair ==
    (pc = "done" /\ InterChart) =>
        \A i \in 1..Len(planets_a), j \in 1..Len(planets_b), t \in 1..Len(aspect_types) :
            WithinOrb(planets_a[i].long, planets_b[j].long, aspect_types[t]) =>
                \E k \in 1..Len(aspects) :
                    /\ aspects[k].pianeta_a = <<label_a, planets_a[i].name>>
                    /\ aspects[k].pianeta_b = <<label_b, planets_b[j].name>>
                    /\ aspects[k].angolo_esatto = aspect_types[t].angle

\* C4: in an intra-chart scan (same collection, equal labels) no record pairs a
\* body with itself, and each unordered pair of distinct names has exactly one
\* record per table entry whose orb contains its separation, and none otherwise.
C4_IntraChartPairOnce ==
    (pc = "done" /\ IntraChart) =>
        /\ \A k \in 1..Len(aspects) : aspects[k].pianeta_a # aspects[k].pianeta_b
        /\ \A i \in 1..Len(planets_a), j \in 1..Len(planets_a), t \in 1..Len(aspect_types) :
            i < j =>
                Cardinality({ k \in 1..Len(aspects) :
                    /\ {aspects[k].pianeta_a, aspects[k].pianeta_b}
                         = {<<label_a, planets_a[i].name>>, <<label_a, planets_a[j].name>>}
                    /\ aspects[k].angolo_esatto = aspect_types[t].angle })
                = IF WithinOrb(planets_a[i].long, planets_a[j].long, aspect_types[t])
                  THEN 1 ELSE 0

\* C4 witness: an intra-chart scan of three points returned a record for each of
\* two different unordered pairs.
C4_Witness ==
    /\ pc = "done" /\ IntraChart /\ Len(planets_a) = 3
    /\ \E k, m \in 1..Len(aspects) :
           {aspects[k].pianeta_a, aspects[k].pianeta_b}
             # {aspects[m].pianeta_a, aspects[m].pianeta_b}

RecordSep(r) == MinArc(LongOf(planets_a, r.pianeta_a[2]), LongOf(planets_b, r.pianeta_b[2]))

\* What C9 says of a record besides the value of its orb, and of two points of
\* different names at the same longitude.
C9_RecordRest(r) ==
    /\ r.orb <= TableEntry(r.angolo_esatto).orb
    /\ r.applicante <=> (RecordSep(r) < r.angolo_esatto)
    /\ (r.aspetto = "congiunzione") => ~r.applicante

C9_SameLongitude ==
    \A i \in 1..Len(planets_a), j \in 1..Len(planets_b) :
        (/\ planets_a[i].name # planets_b[j].name
         /\ planets_a[i].long = planets_b[j].long) =>
            \E k \in 1..Len(aspects) :
                /\ {aspects[k].pianeta_a, aspects[k].pianeta_b}
                     = {<<label_a, planets_a[i].name>>, <<label_b, planets_b[j].name>>}
                /\ aspects[k].aspetto = "congiunzione"
                /\ aspects[k].orb = 0
                /\ ~aspects[k].applicante

C10_SortedByOrb ==
    (pc = "done") =>
        \A n \in 0..Len(aspects) :
            \A i \in 1..n, j \in (n + 1)..Len(aspects) : aspects[i].orb <= aspects[j].orb

\* C10 witness: the records were found in an order that is not the order of
\* their orbs, in an inter-chart scan.
C10_Witness ==
    /\ pc = "done" /\ InterChart
    /\ LET found == ScanPairs(planets_a, planets_b, label_a, label_b).aspects
       IN  \E i, j \in 1..Len(found) : i < j /\ found[i].orb > found[j].orb

-----------------------------------------------------------------------------
(* detect_patterns *)

\* d = abs(x - y) % 360; d = min(d, 360 - d)
PatternDiff(x, y) ==
    LET d == Abs(x - y) % Deg(360)
    IN  Min(d, Deg(360) - d)

\* Two of the three legs only.
TrineLegs_TwoOnly(d1, d2, d3) == Abs(d1 - Deg(120)) <= Deg(8) /\ Abs(d2 - Deg(120)) <= Deg(8)

\* all(abs(d-120)<=8 for d in [d1,d2,d3])
TrineLegs(d1, d2, d3) == \A d \in {d1, d2, d3} : Abs(d - Deg(120)) <= Deg(8)

\* Grand Trine: for i, for j in range(i+1, n), for k in range(j+1, n)
GranTrigono(names, longs) ==
    LET n == Len(names)
        Rec(i, j, k) ==
            IF TrineLegs(PatternDiff(longs[i], longs[j]),
                         PatternDiff(longs[j], longs[k]),
                         PatternDiff(longs[i], longs[k]))
            THEN << [nome     |-> <<"Gran Trigono">>,
                     pianeti  |-> <<names[i], names[j], names[k]>>,
                     elemento |-> ELEMENT[deg_to_sign(longs[i])[1]]] >>
            ELSE <<>>
    IN  Flatten([i \in 1..n |->
            Flatten([j \in 1..n |-> IF j <= i THEN <<>> ELSE
                Flatten([k \in 1..n |-> IF k <= j THEN <<>> ELSE Rec(i, j, k)])])])

\* The apex taken to be the first of the opposed bodies.
ApexRecord_First(nome, names, i, j, k) ==
    [nome |-> <<nome>>, pianeti |-> <<names[i], names[j], names[k]>>, vertice |-> names[i]]

\* "pianeti": [names[i], names[j], names[k]], "vertice": names[k]
ApexRecord(nome, names, i, j, k) ==
    [nome |-> <<nome>>, pianeti |-> <<names[i], names[j], names[k]>>, vertice |-> names[k]]

\* T-Square with the opposed pair taken in both orders: for i, for every
\* j other than i.
TQuadrato_BothOrders(names, longs) ==
    LET n == Len(names)
        Rec(i, j, k) ==
            IF k = i \/ k = j THEN <<>>
            ELSE IF /\ Abs(PatternDiff(longs[k], longs[i]) - Deg(90)) <= Deg(8)
                    /\ Abs(PatternDiff(longs[k], longs[j]) - Deg(90)) <= Deg(8)
                 THEN << ApexRecord("T-Quadrato", names, i, j, k) >>
                 ELSE <<>>
    IN  Flatten([i \in 1..n |->
            Flatten([j \in 1..n |-> IF j = i THEN <<>> ELSE
                IF Abs(PatternDiff(longs[i], longs[j]) - Deg(180)) <= Deg(8)
                THEN Flatten([k \in 1..n |-> Rec(i, j, k)])
                ELSE <<>>])])

\* T-Square: for i, for j in range(i+1, n) in opposition, for every other k
\* square to both
TQuadrato(names, longs) ==
    LET n == Len(names)
        Rec(i, j, k) ==
            IF k = i \/ k = j THEN <<>>
            ELSE IF /\ Abs(PatternDiff(longs[k], longs[i]) - Deg(90)) <= Deg(8)
                    /\ Abs(PatternDiff(longs[k], longs[j]) - Deg(90)) <= Deg(8)
                 THEN << ApexRecord("T-Quadrato", names, i, j, k) >>
                 ELSE <<>>
    IN  Flatten([i \in 1..n |->
            Flatten([j \in 1..n |-> IF j <= i THEN <<>> ELSE
                IF Abs(PatternDiff(longs[i], longs[j]) - Deg(180)) <= Deg(8)
                THEN Flatten([k \in 1..n |-> Rec(i, j, k)])
                ELSE <<>>])])

\* Grand Cross: for i, for j in range(i+1, n) in opposition, for k in
\* range(j+1, n), for l in range(k+1, n) in opposition, with i and k in square
CroceCardinale(names, longs) ==
    LET n == Len(names)
        Rec(i, j, k, l) ==
            IF Abs(PatternDiff(longs[k], longs[l]) - Deg(180)) <= Deg(8)
            THEN IF Abs(PatternDiff(longs[i], longs[k]) - Deg(90)) <= Deg(8)
                 THEN << [nome    |-> <<"Croce Cardinale">>,
                          pianeti |-> <<names[i], names[j], names[k], names[l]>>] >>
                 ELSE <<>>
            ELSE <<>>
    IN  Flatten([i \in 1..n |->
            Flatten([j \in 1..n |-> IF j <= i THEN <<>> ELSE
                IF Abs(PatternDiff(longs[i], longs[j]) - Deg(180)) <= Deg(8)
                THEN Flatten([k \in 1..n |-> IF k <= j THEN <<>> ELSE
                         Flatten([l \in 1..n |-> IF l <= k THEN <<>> ELSE Rec(i, j, k, l)])])
                ELSE <<>>])])

\* The quincunx legs given the orb of a major aspect.
YodLegs_MajorOrb(d1, d2) == Abs(d1 - Deg(150)) <= Deg(8) /\ Abs(d2 - Deg(150)) <= Deg(8)

\* abs(d1-150)<=3 and abs(d2-150)<=3
YodLegs(d1, d2) == Abs(d1 - Deg(150)) <= Deg(3) /\ Abs(d2 - Deg(150)) <= Deg(3)

\* Yod: for i, for j in range(i+1, n) in sextile, for every other k in
\* quincunx to both
Yod(names, longs) ==
    LET n == Len(names)
        Rec(i, j, k) ==
            IF k = i \/ k = j THEN <<>>
            ELSE IF YodLegs(PatternDiff(longs[k], longs[i]), PatternDiff(longs[k], longs[j]))
                 THEN << ApexRecord("Yod (Dito di Dio)", names, i, j, k) >>
                 ELSE <<>>
    IN  Flatten([i \in 1..n |->
            Flatten([j \in 1..n |-> IF j <= i THEN <<>> ELSE
                IF Abs(PatternDiff(longs[i], longs[j]) - Deg(60)) <= Deg(6)
                THEN Flatten([k \in 1..n |-> Rec(i, j, k)])
                ELSE <<>>])])

\* sign_groups: the signs in the order of their first body, each with its
\* bodies in the order of the map
SignGroups(map) ==
    LET SignAt(i) == deg_to_sign(map[i].long)[1]
        First(i) == \A h \in 1..(i - 1) : SignAt(h) # SignAt(i)
    IN  Flatten([i \in 1..Len(map) |->
            IF First(i)
            THEN << [sign    |-> SignAt(i),
                     planets |-> Flatten([h \in 1..Len(map) |->
                                     IF SignAt(h) = SignAt(i) THEN <<map[h].name>> ELSE <<>>])] >>
            ELSE <<>>])

\* A single body in a sign taken for a stellium.
StelliumSize_One(planets) == Len(planets) >= 1

\* A pair of bodies in a sign taken for a stellium.
StelliumSize_Two(planets) == Len(planets) >= 2

\* if len(planets) >= 3
StelliumSize(planets) == Len(planets) >= 3

\* for sign, planets in sign_groups.items()
Stellium(map) ==
    LET groups == SignGroups(map)
    IN  Flatten([g \in 1..Len(groups) |->
            IF StelliumSize(groups[g].planets)
            THEN << [nome |-> <<"Stellium in ", groups[g].sign>>, pianeti |-> groups[g].planets] >>
            ELSE <<>>])

detect_patterns(map) ==
    LET names == [i \in 1..Len(map) |-> map[i].name]
        longs == [i \in 1..Len(map) |-> map[i].long]
    IN  GranTrigono(names, longs) \o TQuadrato(names, longs)
          \o CroceCardinale(names, longs) \o Yod(names, longs) \o Stellium(map)

-----------------------------------------------------------------------------
(* Inputs of detect_patterns and its caller *)

\* Number of bodies of a longitude map.
MaxPatternBodies == 4

\* Longitudes the maps draw from: the corners of a cross (0, 90, 180, 270), of a
\* trine (0, 120, 240) and of a yod (120, 180, 330), and 112: at the edge of the
\* orb of a trine with 0 and 240, 8 degrees off the quincunx of 270 and 330, and
\* 8 degrees before the sign that starts at 120.
PatternGrid == {0, Deg(90), Deg(112), Deg(120), Deg(180), Deg(240), Deg(270), Deg(330)}

InitPatterns ==
    /\ pc = "build"
    /\ longs_map = <<>>
    /\ patterns = <<>>
    /\ NoAspectCall /\ NoHouseCall /\ NoLaterCall

\* The caller's map {n: p['longitudine'] for n, p in planets_data.items()}
AddPatternBody ==
    /\ pc = "build"
    /\ Len(longs_map) < MaxPatternBodies
    /\ \E long \in PatternGrid : longs_map' = Append(longs_map, Point(longs_map, long))
    /\ UNCHANGED <<pc, planets_a, planets_b, label_a, label_b, aspects,
                   patterns, planet_long, houses, casa>>
    /\ UNCHANGED <<compositeVars, arabicVars, natalVars>>

CallPatterns ==
    /\ pc = "build"
    /\ patterns' = detect_patterns(longs_map)
    /\ pc' = "done"
    /\ UNCHANGED <<planets_a, planets_b, label_a, label_b, aspects,
                   longs_map, planet_long, houses, casa>>
    /\ UNCHANGED <<compositeVars, arabicVars, natalVars>>

NextPatterns == AddPatternBody \/ CallPatterns

SpecPatterns == InitPatterns /\ [][NextPatterns]_vars

-----------------------------------------------------------------------------
(* Properties of detect_patterns *)

Bodies == 1..Len(longs_map)

NameAt(i) == longs_map[i].name

\* The separation of bodies x and y of the map is within orb of angle (degrees).
Near(x, y, angle, orb) ==
    Abs(MinArc(longs_map[x].long, longs_map[y].long) - Deg(angle)) <= Deg(orb)

PatternsNamed(nome) == { k \in 1..Len(patterns) : patterns[k].nome = <<nome>> }

BodySet(r) == { r.pianeti[i] : i \in 1..Len(r.pianeti) }

\* The records named nome stand one to one for the combinations of an
\* unordered pair {a, b} at angle base (within baseOrb) and a third body c at
\* angle leg (within legOrb) of both: pianeti lists a, b, c and vertice is c.
ApexPatternExact(nome, base, baseOrb, leg, legOrb) ==
    LET Combo(a, b, c) ==
            /\ a # b /\ c # a /\ c # b
            /\ Near(a, b, base, baseOrb)
            /\ Near(c, a, leg, legOrb) /\ Near(c, b, leg, legOrb)
        named == PatternsNamed(nome)
    IN  /\ \A k \in named :
              /\ Len(patterns[k].pianeti) = 3
              /\ patterns[k].vertice = patterns[k].pianeti[3]
              /\ \E a, b, c \in Bodies :
                    /\ Combo(a, b, c)
                    /\ patterns[k].pianeti = <<NameAt(a), NameAt(b), NameAt(c)>>
        /\ \A a, b, c \in Bodies :
              (a < b /\ Combo(a, b, c)) =>
                  Cardinality({ k \in named :
                      /\ {patterns[k].pianeti[1], patterns[k].pianeti[2]} = {NameAt(a), NameAt(b)}
                      /\ patterns[k].pianeti[3] = NameAt(c)
                      /\ patterns[k].vertice = NameAt(c) }) = 1

\* C2: whenever 4 distinct bodies form two disjoint oppositions (each within 8
\* degrees of 180) with at least one cross-pair within 8 degrees of 90, the
\* result holds a 'Croce Cardinale' of those four bodies, whatever their order
\* in the map.
C2_GrandCrossComplete ==
    (pc = "done") =>
        \A a, b, c, d \in Bodies :
            (/\ Cardinality({a, b, c, d}) = 4
             /\ Near(a, b, 180, 8) /\ Near(c, d, 180, 8)
             /\ Near(a, c, 90, 8) \/ Near(a, d, 90, 8) \/ Near(b, c, 90, 8) \/ Near(b, d, 90, 8))
            => \E k \in PatternsNamed("Croce Cardinale") :
                   BodySet(patterns[k]) = {NameAt(a), NameAt(b), NameAt(c), NameAt(d)}

\* C5: the 'T-Quadrato' records are exactly the combinations of an unordered
\* pair in opposition (within 8 of 180) and a third body within 8 of 90 of
\* both; pianeti lists the pair then the third body, and vertice is the third.
C5_TSquareExact ==
    (pc = "done") => ApexPatternExact("T-Quadrato", 180, 8, 90, 8)

\* C5 witness: a T-square whose apex comes before the opposed pair in the map.
C5_Witness ==
    /\ pc = "done"
    /\ \E k \in PatternsNamed("T-Quadrato") :
          patterns[k].vertice = NameAt(1) /\ patterns[k].pianeti[1] # NameAt(1)

\* C6: the result holds a 'Gran Trigono' of bodies x, y, z if and only if they
\* are three distinct bodies whose three separations are all within 8 degrees
\* (inclusive) of 120.
C6_GrandTrineIff ==
    (pc = "done") =>
        /\ \A k \in PatternsNamed("Gran Trigono") : Len(patterns[k].pianeti) = 3
        /\ { BodySet(patterns[k]) : k \in PatternsNamed("Gran Trigono") }
             = { {NameAt(x), NameAt(y), NameAt(z)} :
                   <<x, y, z>> \in { t \in Bodies \X Bodies \X Bodies :
                       /\ t[1] < t[2] /\ t[2] < t[3]
                       /\ Near(t[1], t[2], 120, 8)
                       /\ Near(t[2], t[3], 120, 8)
                       /\ Near(t[1], t[3], 120, 8) } }

\* C6 witness: three bodies exactly 120 degrees apart are reported, and so are
\* three bodies with a leg at the edge of the orb.
C6_Witness ==
    /\ pc = "done"
    /\ \E x, y, z \in Bodies :
          /\ Near(x, y, 120, 0) /\ Near(y, z, 120, 0) /\ Near(x, z, 120, 0)
          /\ \E k \in PatternsNamed("Gran Trigono") :
                 BodySet(patterns[k]) = {NameAt(x), NameAt(y), NameAt(z)}
    /\ \E x, y \in Bodies, k \in PatternsNamed("Gran Trigono") :
          /\ MinArc(longs_map[x].long, longs_map[y].long) = Deg(128)
          /\ {NameAt(x), NameAt(y)} \subseteq BodySet(patterns[k])

\* C7: the 'Yod (Dito di Dio)' records are exactly the combinations of an
\* unordered pair in sextile (within 6 of 60) and a third body within 3 of 150
\* of both; vertice is the third body.
C7_YodExact ==
    (pc = "done") => ApexPatternExact("Yod (Dito di Dio)", 60, 6, 150, 3)

\* C7 witness: a yod is reported, next to a body 8 degrees off the quincunx
\* of a sextile pair that is not.
C7_Witness ==
    /\ pc = "done"
    /\ PatternsNamed("Yod (Dito di Dio)") # {}
    /\ \E a, b, c \in Bodies :
          /\ Near(a, b, 60, 6) /\ Near(c, a, 150, 8) /\ Near(c, b, 150, 8)
          /\ ~Near(c, a, 150, 3)

\* The index of the sign whose 30 degrees hold the longitude reduced modulo 360.
SignIndexOf(long) ==
    CHOOSE s \in 1..12 : Deg(30) * (s - 1) <= long % Deg(360) /\ long % Deg(360) < Deg(30) * s

StelliumRecords == { k \in 1..Len(patterns) : patterns[k].nome[1] = "Stellium in " }

\* C8: there is exactly one 'Stellium in <sign>' record for each sign holding 3
\* or more bodies, its pianeti being exactly the bodies of that sign, and none
\* for a sign holding fewer.
C8_StelliumPerSign ==
    (pc = "done") =>
        LET signOf   == [i \in Bodies |-> SignIndexOf(longs_map[i].long)]
            stellium == StelliumRecords
        IN  \A s \in 1..12 :
            LET members == { i \in Bodies : signOf[i] = s }
                recs    == { k \in stellium : patterns[k].nome[2] = SIGNS[s] }
            IN  IF Cardinality(members) >= 3
                THEN /\ Cardinality(recs) = 1
                     /\ \A k \in recs :
                           /\ BodySet(patterns[k]) = { NameAt(i) : i \in members }
                           /\ Len(patterns[k].pianeti) = Cardinality(members)
                ELSE recs = {}

\* C8 witness: a stellium of three bodies is reported while a fourth body, in
\* the next sign and 8 degrees from one of them, is left out of it.
C8_Witness ==
    /\ pc = "done"
    /\ \E k \in StelliumRecords, i \in Bodies :
          /\ Len(patterns[k].pianeti) = 3
          /\ NameAt(i) \notin BodySet(patterns[k])
          /\ \E j \in Bodies :
                /\ NameAt(j) \in BodySet(patterns[k])
                /\ MinArc(longs_map[i].long, longs_map[j].long) = Deg(8)

-----------------------------------------------------------------------------
(* calc_planet_in_house *)

\* h_end is left as read.
HouseEnd_NoSeam(h_start, h_end) == h_end

\* if h_end < h_start: h_end += 360
HouseEnd(h_start, h_end) == IF h_end < h_start THEN h_end + Deg(360) ELSE h_end

\* p = planet_long if planet_long >= h_start else planet_long + 360
HouseP(long, h_start) == IF long >= h_start THEN long ELSE long + Deg(360)

\* The test of house i (1..12) in the loop: h_start <= p < h_end
HouseMatch(long, cusps, i) ==
    LET h_start == cusps[i]
        h_end   == HouseEnd(h_start, cusps[(i % 12) + 1])
        p       == HouseP(long, h_start)
    IN  h_start <= p /\ p < h_end

\* for i in range(12): ... return HOUSES_LABELS[i]; return "I".  Reading a cusp
\* past the end of the list raises IndexError.
calc_planet_in_house(long, cusps) ==
    LET scan[i \in 1..13] ==
            IF i = 13 THEN "I"
            ELSE IF i > Len(cusps) \/ (i % 12) + 1 > Len(cusps) THEN "IndexError"
            ELSE IF HouseMatch(long, cusps, i) THEN HOUSES_LABELS[i]
            ELSE scan[i + 1]
    IN  scan[1]

-----------------------------------------------------------------------------
(* Inputs of calc_planet_in_house and its caller *)

\* Number of positions of the ascendant around the circle.
AscSteps == 18

\* Number of positions of the planet around the circle.
LongSteps == 36

\* Offsets of the twelve cusps from the ascendant: equal houses, and unequal
\* houses with opposite cusps 180 degrees apart.
HouseSystems == {
    <<0, 30, 60, 90, 120, 150, 180, 210, 240, 270, 300, 330>>,
    <<0, 25, 55, 90, 125, 155, 180, 205, 235, 270, 305, 335>> }

Ascendants == { ((k * Deg(360)) \div AscSteps) + f : k \in 0..(AscSteps - 1), f \in {0, 1} }

PlanetLongs ==
    { ((k * Deg(360)) \div LongSteps) + f : k \in 0..(LongSteps - 1), f \in {0, 1} }
      \cup {Deg(15), Deg(345), Deg(360) - 1}

InitHouses ==
    /\ pc = "build"
    /\ NoHouseCall
    /\ NoAspectCall /\ NoPatternCall /\ NoLaterCall

\* houses_raw, ascmc = swe.houses(...); pd = planet_data(jd, pid)
ReadChart ==
    /\ pc = "build"
    /\ \E asc \in Ascendants, sys \in HouseSystems :
          houses' = [i \in 1..Len(sys) |-> (asc + Deg(sys[i])) % Deg(360)]
    /\ planet_long' \in PlanetLongs
    /\ pc' = "ready"
    /\ UNCHANGED <<planets_a, planets_b, label_a, label_b, aspects,
                   longs_map, patterns, casa>>
    /\ UNCHANGED <<compositeVars, arabicVars, natalVars>>

\* pd['casa'] = calc_planet_in_house(pd['longitudine'], list(houses_raw))
CallHouse ==
    /\ pc = "ready"
    /\ casa' = calc_planet_in_house(planet_long, houses)
    /\ pc' = "done"
    /\ UNCHANGED <<planets_a, planets_b, label_a, label_b, aspects,
                   longs_map, patterns, planet_long, houses>>
    /\ UNCHANGED <<compositeVars, arabicVars, natalVars>>

NextHouses == ReadChart \/ CallHouse

SpecHouses == InitHouses /\ [][NextHouses]_vars

-----------------------------------------------------------------------------
(* Properties of calc_planet_in_house *)

\* 12 cusps in [0, 360) that increase around the circle: from each cusp to the
\* next (the twelfth to the first) the longitude grows, except at exactly one
\* place, where it crosses the 0/360 seam.
CircularCusps(cusps) ==
    /\ Len(cusps) = 12
    /\ \A i \in 1..12 : 0 <= cusps[i] /\ cusps[i] < Deg(360)
    /\ \A i \in 1..12 : cusps[i] # cusps[(i % 12) + 1]
    /\ Cardinality({ i \in 1..12 : cusps[i] > cusps[(i % 12) + 1] }) = 1

\* The longitude lies on the arc from start (included) to end (excluded).
InSector(long, start, end) ==
    IF start < end THEN start <= long /\ long < end
    ELSE long >= start \/ long < end

\* C3: for 12 circularly increasing cusps and a longitude in [0, 360) exactly
\* one house sector holds the longitude, the label returned is the label of
\* that house, and it is returned by the loop, not by the fallback after it.
C3_HouseOfSector ==
    (pc = "done" /\ CircularCusps(houses) /\ 0 <= planet_long /\ planet_long < Deg(360)) =>
        LET holding == { i \in 1..12 :
                           InSector(planet_long, houses[i], houses[(i % 12) + 1]) }
        IN  /\ Cardinality(holding) = 1
            /\ \A i \in holding : casa = HOUSES_LABELS[i]
            /\ \E i \in 1..12 : HouseMatch(planet_long, houses, i)

\* C3 witness: house XII runs from 350 to 20 degrees and the longitude 10 is
\* placed in it.
C3_Witness ==
    /\ pc = "done" /\ CircularCusps(houses)
    /\ houses[12] = Deg(350) /\ houses[1] = Deg(20)
    /\ planet_long = Deg(10)
    /\ casa = "XII"

-----------------------------------------------------------------------------
(* calc_composite *)

\* The midpoint of two longitudes on the shorter arc.  Both longitudes are
\* even numbers of units, so that the halves are exact.
Mid(l1, l2) ==
    LET diff == Abs(l1 - l2)
    IN  IF diff > Deg(180) THEN ((l1 + l2 + Deg(360)) \div 2) % Deg(360)
        ELSE (l1 + l2) \div 2

\* planets2[name]['longitudine']
LongitudineOf(planets, name) ==
    planets[CHOOSE i \in 1..Len(planets) : planets[i].name = name].longitudine

CompositePlanet(name, l1, l2) ==
    LET mid == Mid(l1, l2)
        sd == deg_to_sign(mid)
    IN  [name |-> name, longitudine |-> Round4(mid),
         segno |-> sd[1], gradi |-> sd[2],
         elemento |-> ELEMENT[sd[1]], qualita |-> QUALITY[sd[1]]]

CompositeAscendant(a1, a2) ==
    LET mid_asc == Mid(a1, a2)
        sd == deg_to_sign(mid_asc)
    IN  [name |-> "ascendente", segno |-> sd[1], gradi |-> sd[2],
         longitudine |-> Round4(mid_asc)]

\* The returned dict, in insertion order: one entry per name of planets1,
\* then 'ascendente'.
calc_composite(p1, p2, a1, a2) ==
    Append([i \in 1..Len(p1) |->
               CompositePlanet(p1[i].name, p1[i].longitudine,
                               LongitudineOf(p2, p1[i].name))],
           CompositeAscendant(a1, a2))

-----------------------------------------------------------------------------
(* Inputs of calc_composite: the two charts of the compatibility endpoint *)

MaxCompositeBodies == 2

\* Planet longitudes are planet_data's round(pos[0], 4): whole numbers of
\* ten-thousandths of a degree.
CompositeGrid == {0, Deg(10), Deg(350), Deg(360) - SubTenK}

\* Ascendants are the unrounded ascmc[0] of swe.houses.
CompositeAscGrid == {0, Deg(180), Deg(350), Deg(360) - 2}

InitComposite ==
    /\ pc = "build"
    /\ NoCompositeCall
    /\ NoAspectCall /\ NoPatternCall /\ NoHouseCall
    /\ NoArabicCall /\ NoNatalCall

\* One pass of the loop over PLANETS: planets1[name] and planets2[name]
AddCouplePlanet ==
    /\ pc = "build"
    /\ Len(planets1) < MaxCompositeBodies
    /\ \E l1 \in CompositeGrid, l2 \in CompositeGrid :
          /\ planets1' = Append(planets1, [name |-> PLANETS[Len(planets1) + 1],
                                           longitudine |-> l1])
          /\ planets2' = Append(planets2, [name |-> PLANETS[Len(planets2) + 1],
                                           longitudine |-> l2])
    /\ UNCHANGED <<pc, asc1, asc2, composite>>
    /\ UNCHANGED <<planets_a, planets_b, label_a, label_b, aspects,
                   longs_map, patterns, planet_long, houses, casa>>
    /\ UNCHANGED <<arabicVars, natalVars>>

\* houses1, ascmc1 = swe.houses(...); houses2, ascmc2 = swe.houses(...)
ReadAscendants ==
    /\ pc = "build"
    /\ asc1' \in CompositeAscGrid
    /\ asc2' \in CompositeAscGrid
    /\ pc' = "ready"
    /\ UNCHANGED <<planets1, planets2, composite>>
    /\ UNCHANGED <<planets_a, planets_b, label_a, label_b, aspects,
                   longs_map, patterns, planet_long, houses, casa>>
    /\ UNCHANGED <<arabicVars, natalVars>>

\* composita = calc_composite(planets1, planets2, ascmc1[0], ascmc2[0])
CallComposite ==
    /\ pc = "ready"
    /\ composite' = calc_composite(planets1, planets2, asc1, asc2)
    /\ pc' = "done"
    /\ UNCHANGED <<planets1, planets2, asc1, asc2>>
    /\ UNCHANGED <<planets_a, planets_b, label_a, label_b, aspects,
                   longs_map, patterns, planet_long, houses, casa>>
    /\ UNCHANGED <<arabicVars, natalVars>>

NextComposite == AddCouplePlanet \/ ReadAscendants \/ CallComposite

SpecComposite == InitComposite /\ [][NextComposite]_vars

-----------------------------------------------------------------------------
(* Properties of calc_composite *)

\* m is a longitude in [0, 360) at the same angular distance from a and from
\* b, which is half the angular distance of a and b.
OnShorterArc(m, a, b) ==
    /\ 0 <= m /\ m < Deg(360)
    /\ MinArc(m, a) = MinArc(m, b)
    /\ 2 * MinArc(m, a) = MinArc(a, b)

\* C11: the composite longitude of every planet, and of the ascendant, is
\* the same when the two charts are swapped, lies in [0, 360) and sits in
\* the middle of the shorter arc between the two input longitudes.
C11_CompositeMidpoint ==
    pc = "done" =>
        /\ composite = calc_composite(planets2, planets1, asc2, asc1)
        /\ \A i \in 1..Len(planets1) :
              OnShorterArc(composite[i].longitudine,
                           planets1[i].longitudine, planets2[i].longitudine)
        /\ OnShorterArc(composite[Len(composite)].longitudine, asc1, asc2)

-----------------------------------------------------------------------------
(* calc_arabic_parts *)

\* part(formula): round(formula % 360, 4); Python's % gives a result in
\* [0, 360) for a negative formula too.
part(formula) == Round4(formula % Deg(360))

\* The ten parts in the order of their insertion: key, added longitude,
\* subtracted longitude.
ArabicFormulas == <<
    [key |-> "fortuna",      plus |-> "moon",    minus |-> "sun"],
    [key |-> "spirito",      plus |-> "sun",     minus |-> "moon"],
    [key |-> "amore",        plus |-> "venus",   minus |-> "sun"],
    [key |-> "matrimonio_m", plus |-> "venus",   minus |-> "saturn"],
    [key |-> "lavoro",       plus |-> "mars",    minus |-> "saturn"],
    [key |-> "salute",       plus |-> "mars",    minus |-> "moon"],
    [key |-> "denaro",       plus |-> "jupiter", minus |-> "sun"],
    [key |-> "viaggi",       plus |-> "saturn",  minus |-> "sun"],
    [key |-> "figli",        plus |-> "jupiter", minus |-> "moon"],
    [key |-> "intelligenza", plus |-> "mercury", minus |-> "sun"] >>

\* args is the record of the parameters asc, sun, moon, mars, saturn,
\* jupiter, mercury, venus.  Sign and degrees are taken from the rounded
\* longitude of the part.
calc_arabic_parts(args) ==
    [i \in 1..Len(ArabicFormulas) |->
        LET f == ArabicFormulas[i]
            longitudine == part(args.asc + args[f.plus] - args[f.minus])
            sd == deg_to_sign(longitudine)
        IN  [key |-> f.key, longitudine |-> longitudine,
             segno |-> sd[1], gradi |-> sd[2], elemento |-> ELEMENT[sd[1]]]]

-----------------------------------------------------------------------------
(* Inputs of calc_arabic_parts: the chart of natal_chart *)

\* Planet longitudes are planet_data's round(pos[0], 4).
ArabicGrid == {0, Deg(90), Deg(200)}

\* The ascendant is the unrounded ascmc[0] of swe.houses.
ArabicAscGrid == {0, Deg(350), Deg(360) - 1}

InitArabic ==
    /\ pc = "build"
    /\ NoArabicCall
    /\ NoAspectCall /\ NoPatternCall /\ NoHouseCall
    /\ NoCompositeCall /\ NoNatalCall

\* asc_long = ascmc[0] and the longitudes of planets_data
ReadReferences ==
    /\ pc = "build"
    /\ \E asc \in ArabicAscGrid,
          sun \in ArabicGrid, moon \in ArabicGrid, mars \in ArabicGrid,
          saturn \in ArabicGrid, jupiter \in ArabicGrid,
          mercury \in ArabicGrid, venus \in ArabicGrid :
          arabic_args' = [asc |-> asc, sun |-> sun, moon |-> moon, mars |-> mars,
                          saturn |-> saturn, jupiter |-> jupiter,
                          mercury |-> mercury, venus |-> venus]
    /\ pc' = "ready"
    /\ UNCHANGED arabic
    /\ UNCHANGED <<planets_a, planets_b, label_a, label_b, aspects,
                   longs_map, patterns, planet_long, houses, casa>>
    /\ UNCHANGED <<compositeVars, natalVars>>

\* arabic = calc_arabic_parts(asc_long, p['sole']['longitudine'], ...)
CallArabic ==
    /\ pc = "ready"
    /\ arabic' = calc_arabic_parts(arabic_args)
    /\ pc' = "done"
    /\ UNCHANGED arabic_args
    /\ UNCHANGED <<planets_a, planets_b, label_a, label_b, aspects,
                   longs_map, patterns, planet_long, houses, casa>>
    /\ UNCHANGED <<compositeVars, natalVars>>

NextArabic == ReadReferences \/ CallArabic

SpecArabic == InitArabic /\ [][NextArabic]_vars

-----------------------------------------------------------------------------
(* Properties of calc_arabic_parts *)

\* The sign that contains a longitude of [0, 360).
SignContaining(long) == SIGNS[(long \div Deg(30)) + 1]

PartNamed(key) == arabic[CHOOSE i \in 1..Len(arabic) : arabic[i].key = key]

\* C12: each of the ten parts has the longitude (asc + x - y) mod 360 of its
\* pair, in [0, 360) whatever the raw combination; fortuna is
\* (asc + moon - sun) mod 360; the sign of a part is the sign that contains
\* its longitude.
C12_ArabicParts ==
    pc = "done" =>
        /\ Len(arabic) = 10
        /\ \A i \in 1..Len(arabic) :
              LET f == ArabicFormulas[i]
                  p == arabic[i]
              IN  /\ p.key = f.key
                  /\ p.longitudine =
                        (arabic_args.asc + arabic_args[f.plus] - arabic_args[f.minus])
                            % Deg(360)
                  /\ 0 <= p.longitudine /\ p.longitudine < Deg(360)
                  /\ p.segno = SignContaining(p.longitudine)
        /\ PartNamed("fortuna").longitudine =
              (arabic_args.asc + arabic_args.moon - arabic_args.sun) % Deg(360)

-----------------------------------------------------------------------------
(* calc_distribution *)

ElementKeys == <<"Fuoco", "Terra", "Aria", "Acqua">>

QualityKeys == <<"Cardinale", "Fisso", "Mutabile">>

PolarityKeys == <<"Maschile", "Femminile">>

\* po = POLARITY.get(ELEMENT.get(sign, ''), '')
PolarityOfSign == [s \in DOMAIN ELEMENT |-> POLARITY[ELEMENT[s]]]

\* The names appended to the bucket key of a table that classifies signs,
\* in the order of planets_data.
BucketNames(pd, classOf, key) ==
    LET InBucket(r) == classOf[r.segno] = key
        members == SelectSeq(pd, InBucket)
    IN  [i \in 1..Len(members) |-> members[i].name]

\* The dict of the buckets of one table, in the order of its declaration.
Buckets(pd, keys, classOf) ==
    [k \in 1..Len(keys) |->
        LET pianeti == BucketNames(pd, classOf, keys[k])
        IN  [key |-> keys[k], pianeti |-> pianeti, count |-> Len(pianeti)]]

\* max(d, key=count) keeping the last of the maximal keys.
MaxByCount_Last(buckets) ==
    LET best[m \in 1..Len(buckets)] ==
            IF m = 1 THEN 1
            ELSE IF buckets[m].count >= buckets[best[m - 1]].count THEN m
                 ELSE best[m - 1]
    IN  buckets[best[Len(buckets)]].key

\* max(d, key=lambda k: len(d[k])): Python's max keeps the first of the
\* maximal keys in the iteration order of the dict.
MaxByCount(buckets) ==
    LET best[m \in 1..Len(buckets)] ==
            IF m = 1 THEN 1
            ELSE IF buckets[m].count > buckets[best[m - 1]].count THEN m
                 ELSE best[m - 1]
    IN  buckets[best[Len(buckets)]].key

calc_distribution(pd) ==
    LET elements == Buckets(pd, ElementKeys, ELEMENT)
        qualities == Buckets(pd, QualityKeys, QUALITY)
        polarities == Buckets(pd, PolarityKeys, PolarityOfSign)
    IN  [elementi |-> elements, qualita |-> qualities, polarita |-> polarities,
         elemento_dominante |-> MaxByCount(elements),
         qualita_dominante |-> MaxByCount(qualities)]

-----------------------------------------------------------------------------
(* natal_chart: the dominant planet *)

weights ==
    [n \in {"sole", "luna", "ascendente", "mercurio", "venere", "marte", "giove",
            "saturno", "urano", "nettuno", "plutone", "chirone"} |->
        CASE n = "sole" -> 5
          [] n \in {"luna", "ascendente"} -> 4
          [] n \in {"mercurio", "venere", "marte", "giove", "saturno"} -> 2
          [] OTHER -> 1]

rulers ==
    [s \in {SIGNS[i] : i \in 1..12} |->
        CASE s = "Ariete" -> "marte"
          [] s = "Toro" -> "venere"
          [] s = "Gemelli" -> "mercurio"
          [] s = "Cancro" -> "luna"
          [] s = "Leone" -> "sole"
          [] s = "Vergine" -> "mercurio"
          [] s = "Bilancia" -> "venere"
          [] s = "Scorpione" -> "plutone"
          [] s = "Sagittario" -> "giove"
          [] s = "Capricorno" -> "saturno"
          [] s = "Acquario" -> "urano"
          [] OTHER -> "nettuno"]

\* weights.get(name, 1)
WeightOf(name) == IF name \in DOMAIN weights THEN weights[name] ELSE 1

\* The literal credited for the ascendant.
AscWeight == 4

\* dominant_score[ruler] = dominant_score.get(ruler, 0) + w on an insertion
\* ordered dict: a new key goes to the end, a known key keeps its place.
Credit(score, ruler, w) ==
    IF \E i \in 1..Len(score) : score[i].ruler = ruler
    THEN [i \in 1..Len(score) |->
             IF score[i].ruler = ruler
             THEN [ruler |-> ruler, points |-> score[i].points + w]
             ELSE score[i]]
    ELSE Append(score, [ruler |-> ruler, points |-> w])

\* The dict after the loop over planets_data and the credit of the ascendant.
dominant_score(pd, asc) ==
    LET after[m \in 0..Len(pd)] ==
            IF m = 0 THEN <<>>
            ELSE Credit(after[m - 1], rulers[pd[m].segno], WeightOf(pd[m].name))
    IN  Credit(after[Len(pd)], rulers[asc], AscWeight)

\* max(d, key=d.get) keeping the last of the maximal keys.
MaxByScore_Last(score) ==
    LET best[m \in 1..Len(score)] ==
            IF m = 1 THEN 1
            ELSE IF score[m].points >= score[best[m - 1]].points THEN m
                 ELSE best[m - 1]
    IN  score[best[Len(score)]].ruler

\* max(dominant_score, key=dominant_score.get): the first of the maximal keys
\* in insertion order.
MaxByScore(score) ==
    LET best[m \in 1..Len(score)] ==
            IF m = 1 THEN 1
            ELSE IF score[m].points > score[best[m - 1]].points THEN m
                 ELSE best[m - 1]
    IN  score[best[Len(score)]].ruler

DominantPlanet(pd, asc) ==
    LET score == dominant_score(pd, asc)
    IN  IF Len(score) > 0 THEN MaxByScore(score) ELSE "sole"

-----------------------------------------------------------------------------
(* Inputs of calc_distribution and of the dominant planet: natal_chart *)

MaxNatalPlanets == 4

\* The signs a planet or the ascendant is read in: two fire signs and one
\* sign of each other element, two cardinal, two fixed and one mutable sign,
\* five different rulers.
NatalSigns == {"Ariete", "Toro", "Gemelli", "Cancro", "Leone"}

InitNatal ==
    /\ pc = "build"
    /\ NoNatalCall
    /\ NoAspectCall /\ NoPatternCall /\ NoHouseCall
    /\ NoCompositeCall /\ NoArabicCall

\* One pass of the loop over PLANETS: planets_data[name] = pd
AddNatalPlanet ==
    /\ pc = "build"
    /\ Len(planets_data) < MaxNatalPlanets
    /\ \E segno \in NatalSigns :
          planets_data' = Append(planets_data,
                                 [name |-> PLANETS[Len(planets_data) + 1],
                                  segno |-> segno])
    /\ UNCHANGED <<pc, asc_sign, distribution, dominant_planet>>
    /\ UNCHANGED <<planets_a, planets_b, label_a, label_b, aspects,
                   longs_map, patterns, planet_long, houses, casa>>
    /\ UNCHANGED <<compositeVars, arabicVars>>

\* asc_sign, asc_deg = deg_to_sign(asc_long)
ReadAscSign ==
    /\ pc = "build"
    /\ asc_sign' \in NatalSigns
    /\ pc' = "ready"
    /\ UNCHANGED <<planets_data, distribution, dominant_planet>>
    /\ UNCHANGED <<planets_a, planets_b, label_a, label_b, aspects,
                   longs_map, patterns, planet_long, houses, casa>>
    /\ UNCHANGED <<compositeVars, arabicVars>>

\* distribution = calc_distribution(planets_data)
CallDistribution ==
    /\ pc = "ready"
    /\ distribution' = calc_distribution(planets_data)
    /\ pc' = "distributed"
    /\ UNCHANGED <<planets_data, asc_sign, dominant_planet>>
    /\ UNCHANGED <<planets_a, planets_b, label_a, label_b, aspects,
                   longs_map, patterns, planet_long, houses, casa>>
    /\ UNCHANGED <<compositeVars, arabicVars>>

\* dominant_planet = max(dominant_score, key=dominant_score.get) ...
ScoreDominant ==
    /\ pc = "distributed"
    /\ dominant_planet' = DominantPlanet(planets_data, asc_sign)
    /\ pc' = "done"
    /\ UNCHANGED <<planets_data, asc_sign, distribution>>
    /\ UNCHANGED <<planets_a, planets_b, label_a, label_b, aspects,
                   longs_map, patterns, planet_long, houses, casa>>
    /\ UNCHANGED <<compositeVars, arabicVars>>

NextNatal == AddNatalPlanet \/ ReadAscSign \/ CallDistribution \/ ScoreDominant

SpecNatal == InitNatal /\ [][NextNatal]_vars

-----------------------------------------------------------------------------
(* Properties of calc_distribution *)

Distributed == pc \in {"distributed", "done"}

\* The number of bodies of planets_data whose sign the table puts in key.
CountIn(classOf, key) ==
    Cardinality({ i \in 1..Len(planets_data) : classOf[planets_data[i].segno] = key })

\* key is a key of maximal count, and every key declared before it has a
\* smaller count.
FirstMaximal(keys, classOf, key) ==
    \E k \in 1..Len(keys) :
        /\ keys[k] = key
        /\ \A j \in 1..Len(keys) : CountIn(classOf, keys[j]) <= CountIn(classOf, key)
        /\ \A j \in 1..(k - 1) : CountIn(classOf, keys[j]) < CountIn(classOf, key)

AllInFire == \A i \in 1..Len(planets_data) : ELEMENT[planets_data[i].segno] = "Fuoco"

\* C13: elemento_dominante and qualita_dominante name a bucket of maximal
\* count, the first one in declaration order when several are maximal; when
\* every body is in a fire sign the Fuoco bucket holds every body, in the
\* order of the chart, and Fuoco is dominant.
C13_DominantBuckets ==
    Distributed =>
        /\ FirstMaximal(ElementKeys, ELEMENT, distribution.elemento_dominante)
        /\ FirstMaximal(QualityKeys, QUALITY, distribution.qualita_dominante)
        /\ AllInFire =>
              /\ distribution.elementi[1].key = "Fuoco"
              /\ distribution.elementi[1].pianeti =
                    [i \in 1..Len(planets_data) |-> planets_data[i].name]
              /\ distribution.elementi[1].count = Len(planets_data)
              /\ distribution.elemento_dominante = "Fuoco"

\* C13 witness: two bodies in earth, two in water and none in fire or air;
\* Terra, declared before Acqua, is reported.
C13_Witness ==
    /\ pc = "distributed"
    /\ CountIn(ELEMENT, "Terra") = 2 /\ CountIn(ELEMENT, "Acqua") = 2
    /\ CountIn(ELEMENT, "Fuoco") = 0
    /\ distribution.elemento_dominante = "Terra"

-----------------------------------------------------------------------------
(* Properties of the dominant planet *)

\* The chart points in the order they are processed: the planets of
\* planets_data, then the ascendant.
ChartPoints == Append(planets_data, [name |-> "ascendente", segno |-> asc_sign])

\* The weight a chart point adds: its fixed weight.
PointWeight(p) == IF p.name = "ascendente" THEN AscWeight ELSE WeightOf(p.name)

\* The points accumulated by a ruler.
ScoreOf(ruler) ==
    LET sum[m \in 0..Len(ChartPoints)] ==
            IF m = 0 THEN 0
            ELSE sum[m - 1] + (IF rulers[ChartPoints[m].segno] = ruler
                               THEN PointWeight(ChartPoints[m]) ELSE 0)
    IN  sum[Len(ChartPoints)]

CreditedRulers == { rulers[ChartPoints[i].segno] : i \in 1..Len(ChartPoints) }

\* The position of the first chart point that credits the ruler.
FirstCredit(ruler) ==
    CHOOSE i \in 1..Len(ChartPoints) :
        /\ rulers[ChartPoints[i].segno] = ruler
        /\ \A j \in 1..(i - 1) : rulers[ChartPoints[j].segno] # ruler

\* C16: the dominant planet is a credited ruler of maximal accumulated
\* score, and among the rulers of maximal score it is the one credited by
\* the earliest chart point (planets in PLANETS order, the ascendant last).
C16_DominantPlanet ==
    pc = "done" =>
        /\ dominant_planet \in CreditedRulers
        /\ \A r \in CreditedRulers :
              /\ ScoreOf(r) <= ScoreOf(dominant_planet)
              /\ ScoreOf(r) = ScoreOf(dominant_planet) =>
                    FirstCredit(dominant_planet) <= FirstCredit(r)

\* C16 witness: two rulers tie for the maximum, above a third one, and the
\* one credited first is reported although the other one is credited by the
\* ascendant too.
C16_Witness ==
    /\ pc = "done"
    /\ \E r \in CreditedRulers :
          /\ r # dominant_planet
          /\ ScoreOf(r) = ScoreOf(dominant_planet)
          /\ FirstCredit(dominant_planet) < FirstCredit(r)
          /\ rulers[asc_sign] = r
    /\ Cardinality(CreditedRulers) >= 3

-----------------------------------------------------------------------------
(* calc_planet_in_house on a cusp list that is not of length 12 *)

\* Lengths of the list: empty, one cusp, one cusp short, one cusp too many.
CuspCounts == {0, 1, 11, 13}

InitCusps ==
    /\ pc = "build"
    /\ NoHouseCall
    /\ NoAspectCall /\ NoPatternCall /\ NoLaterCall

\* A caller that hands over the first n cusps of equal houses, or one more.
ReadCuspList ==
    /\ pc = "build"
    /\ \E asc \in Ascendants, n \in CuspCounts :
          houses' = [i \in 1..n |-> (asc + Deg(30) * (i - 1)) % Deg(360)]
    /\ planet_long' \in PlanetLongs
    /\ pc' = "ready"
    /\ UNCHANGED <<planets_a, planets_b, label_a, label_b, aspects,
                   longs_map, patterns, casa>>
    /\ UNCHANGED <<compositeVars, arabicVars, natalVars>>

NextCusps == ReadCuspList \/ CallHouse

SpecCusps == InitCusps /\ [][NextCusps]_vars

\* C14: a call with a cusp list whose length is not 12 ends with an error
\* and not with a house label, whatever the longitude.
C14_InvalidCuspsFail ==
    (pc = "done" /\ Len(houses) # 12) =>
        /\ casa = "IndexError"
        /\ casa \notin { HOUSES_LABELS[i] : i \in 1..12 }

-----------------------------------------------------------------------------
(* calc_aspects and detect_patterns on small and empty inputs *)

MaxFewPoints == 2

MaxFewBodies == 3

FewGrid == {0, Deg(120)}

\* Empty collections and an empty map, under the labels of either caller.
InitFew ==
    /\ pc = "build"
    /\ planets_a = <<>> /\ planets_b = <<>>
    /\ \/ label_a = "" /\ label_b = ""
       \/ label_a = "T:" /\ label_b = "N:"
    /\ aspects = <<>>
    /\ NoPatternCall /\ NoHouseCall /\ NoLaterCall

\* One more point in the first collection of calc_aspects
AddPointA ==
    /\ pc = "build"
    /\ Len(planets_a) < MaxFewPoints
    /\ \E long \in FewGrid : planets_a' = Append(planets_a, Point(planets_a, long))
    /\ UNCHANGED <<pc, planets_b, label_a, label_b, aspects,
                   longs_map, patterns, planet_long, houses, casa>>
    /\ UNCHANGED <<compositeVars, arabicVars, natalVars>>

\* One more point in the second collection of calc_aspects
AddPointB ==
    /\ pc = "build"
    /\ Len(planets_b) < MaxFewPoints
    /\ \E long \in FewGrid : planets_b' = Append(planets_b, Point(planets_b, long))
    /\ UNCHANGED <<pc, planets_a, label_a, label_b, aspects,
                   longs_map, patterns, planet_long, houses, casa>>
    /\ UNCHANGED <<compositeVars, arabicVars, natalVars>>

\* One more body in the map of detect_patterns
AddMapBody ==
    /\ pc = "build"
    /\ Len(longs_map) < MaxFewBodies
    /\ \E long \in FewGrid : longs_map' = Append(longs_map, Point(longs_map, long))
    /\ UNCHANGED <<pc, planets_a, planets_b, label_a, label_b, aspects,
                   patterns, planet_long, houses, casa>>
    /\ UNCHANGED <<compositeVars, arabicVars, natalVars>>

\* aspects = calc_aspects(...); patterns = detect_patterns(...)
CallBoth ==
    /\ pc = "build"
    /\ aspects' = calc_aspects(planets_a, planets_b, label_a, label_b)
    /\ patterns' = detect_patterns(longs_map)
    /\ pc' = "done"
    /\ UNCHANGED <<planets_a, planets_b, label_a, label_b,
                   longs_map, planet_long, houses, casa>>
    /\ UNCHANGED <<compositeVars, arabicVars, natalVars>>

NextFew == AddPointA \/ AddPointB \/ AddMapBody \/ CallBoth

SpecFew == InitFew /\ [][NextFew]_vars

\* The points the two collections provide: a point is a name under the label
\* of its collection.
DistinctPoints ==
    { <<label_a, planets_a[i].name>> : i \in 1..Len(planets_a) }
        \cup { <<label_b, planets_b[i].name>> : i \in 1..Len(planets_b) }

\* C15: detect_patterns on a map of fewer than 3 bodies returns the empty
\* list, and so does calc_aspects on collections that provide fewer than 2
\* distinct points; empty inputs are included.
C15_FewBodiesEmptyResult ==
    pc = "done" =>
        /\ Len(longs_map) < 3 => patterns = <<>>
        /\ Cardinality(DistinctPoints) < 2 => aspects = <<>>

\* C15 witness: two bodies in one sign and a single point against an empty
\* collection give no pattern and no aspect.
C15_Witness ==
    /\ pc = "done"
    /\ Len(longs_map) = 2 /\ longs_map[1].long = longs_map[2].long
    /\ Len(planets_a) = 1 /\ Len(planets_b) = 0
    /\ patterns = <<>> /\ aspects = <<>>

-----------------------------------------------------------------------------
(* Exclusivity of the aspects *)

\* The separations of [0, 180] degrees that a table entry accepts: from lo
\* to hi, both included.
ToleranceLo(t) == IF t.angle - t.orb < 0 THEN 0 ELSE t.angle - t.orb

ToleranceHi(t) == IF t.angle + t.orb > Deg(180) THEN Deg(180) ELSE t.angle + t.orb

OrbNamed(asp_name) ==
    aspect_types[CHOOSE t \in 1..Len(aspect_types) :
                    aspect_types[t].asp_name = asp_name].orb

\* The unordered pair of points of a record.
RecordPair(r) == {r.pianeta_a, r.pianeta_b}

\* C17: under the default orbs (8 for conjunction, square, trine and
\* opposition, 6 for the sextile, 3 for the quincunx, 2 for the others) the
\* tolerance intervals of the ten table entries are pairwise disjoint on
\* [0, 180], and the list returned by calc_aspects holds at most one record
\* for a pair of points.
C17_AspectExclusive ==
    /\ Len(aspect_types) = 10
    /\ \A n \in {"congiunzione", "quadratura", "trigono", "opposizione"} :
          OrbNamed(n) = Deg(8)
    /\ OrbNamed("sestile") = Deg(6)
    /\ OrbNamed("quinconce") = Deg(3)
    /\ \A n \in {"semisestile", "semiquadrato", "quintile", "sesquiquadrato"} :
          OrbNamed(n) = Deg(2)
    /\ \A s \in 1..Len(aspect_types), t \in 1..Len(aspect_types) :
          s # t => \/ ToleranceHi(aspect_types[s]) < ToleranceLo(aspect_types[t])
                   \/ ToleranceHi(aspect_types[t]) < ToleranceLo(aspect_types[s])
    /\ pc = "done" =>
          \A k \in 1..Len(aspects), m \in 1..Len(aspects) :
              k # m => RecordPair(aspects[k]) # RecordPair(aspects[m])

\* C17 witness: a scan of two charts returned a sextile for one pair and a
\* trine for another pair, each pair with its single record.
C17_Witness ==
    /\ pc = "done" /\ label_a = "T:"
    /\ \E k \in 1..Len(aspects), m \in 1..Len(aspects) :
          /\ aspects[k].aspetto = "sestile" /\ aspects[m].aspetto = "trigono"
          /\ RecordPair(aspects[k]) # RecordPair(aspects[m])

-----------------------------------------------------------------------------
(* No duplicate patterns *)

\* The records of the list with the given name and set of bodies.
RecordsOf(nome, bodies) ==
    { k \in 1..Len(patterns) : patterns[k].nome = nome /\ BodySet(patterns[k]) = bodies }

DistinctNames == \A i \in Bodies, j \in Bodies : i # j => NameAt(i) # NameAt(j)

\* C18: for a map with distinct names, no two records of the returned list
\* have the same pattern name and the same set of bodies: a triple has at
\* most one Gran Trigono, one T-Quadrato (so one apex) and one Yod, a
\* quadruple at most one Croce Cardinale.
C18_NoDuplicatePattern ==
    (pc = "done" /\ DistinctNames) =>
        /\ \A k \in 1..Len(patterns), m \in 1..Len(patterns) :
              (k # m /\ patterns[k].nome = patterns[m].nome) =>
                  BodySet(patterns[k]) # BodySet(patterns[m])
        /\ \A k \in 1..Len(patterns) :
              Cardinality(RecordsOf(patterns[k].nome, BodySet(patterns[k]))) = 1

\* C18 witness: one opposition squared by two other bodies gives two
\* T-squares, one per triple, each with its own apex.
C18_Witness ==
    /\ pc = "done" /\ DistinctNames
    /\ \E k \in PatternsNamed("T-Quadrato"), m \in PatternsNamed("T-Quadrato") :
          /\ patterns[k].vertice # patterns[m].vertice
          /\ patterns[k].pianeti[1] = patterns[m].pianeti[1]
          /\ patterns[k].pianeti[2] = patterns[m].pianeti[2]
          /\ Cardinality(RecordsOf(patterns[k].nome, BodySet(patterns[k]))) = 1
          /\ Cardinality(RecordsOf(patterns[m].nome, BodySet(patterns[m]))) = 1

=============================================================================
